---- MODULE Spec2Model ----
(***************************************************************************)
(* Model of download_youtube_playlist.py: the metadata resolver            *)
(* (get_video_info), the media fetcher (download_video), the folder        *)
(* provisioner (setup_download_folder) and the two workflows               *)
(* (download_single_video, extract_playlist_info).                         *)
(*                                                                         *)
(* Python values are tagged records: [t |-> "none"], [t |-> "int", v],     *)
(* [t |-> "str", v], [t |-> "centi", v] (a float with two decimals, held   *)
(* as hundredths).  A key that a dict does not have is [t |-> "absent"].   *)
(* The upload date the collaborator returns is a str whose v is the        *)
(* sequence of its characters, because strptime reads it character by      *)
(* character; every other string is a TLA+ string.                         *)
(***************************************************************************)
EXTENDS Integers, Sequences, FiniteSets, TLC

\* ---------------------------------------------------------------- bounds
MaxEntries == 3

\* ---------------------------------------------------------------- values
NoneV == [t |-> "none"]
Absent == [t |-> "absent"]
IntV(n) == [t |-> "int", v |-> n]
StrV(s) == [t |-> "str", v |-> s]
CentiV(c) == [t |-> "centi", v |-> c]

TidakTersedia == StrV("Tidak tersedia")

\* Python truthiness of a value
Truthy(x) ==
    CASE x.t = "none" -> FALSE
      [] x.t = "absent" -> FALSE
      [] x.t = "int" -> x.v # 0
      [] x.t = "centi" -> x.v # 0
      [] x.t = "str" -> Len(x.v) > 0

\* dict.get(key, default): the default only when the key is absent
DictGet(d, k, default) == IF d[k] = Absent THEN default ELSE d[k]

\* ---------------------------------------------------------------- dates
DigitChars == {"0", "1", "2", "3", "4", "5", "6", "7", "8", "9"}
NonZeroDigitChars == DigitChars \ {"0"}

DigitVal(c) ==
    CASE c = "0" -> 0 [] c = "1" -> 1 [] c = "2" -> 2 [] c = "3" -> 3
      [] c = "4" -> 4 [] c = "5" -> 5 [] c = "6" -> 6 [] c = "7" -> 7
      [] c = "8" -> 8 [] c = "9" -> 9

DigitStr(n) ==
    CASE n = 0 -> "0" [] n = 1 -> "1" [] n = 2 -> "2" [] n = 3 -> "3"
      [] n = 4 -> "4" [] n = 5 -> "5" [] n = 6 -> "6" [] n = 7 -> "7"
      [] n = 8 -> "8" [] n = 9 -> "9"

\* the character at position i of s, "" past its end
At(s, i) == IF i >= 1 /\ i <= Len(s) THEN s[i] ELSE ""

\* int() of the characters s[i..i+n-1]; a leading blank counts as nothing
RECURSIVE IntOf(_, _, _)
IntOf(s, i, n) ==
    IF n = 0 THEN 0
    ELSE LET c == At(s, i + n - 1)
         IN  (IF c = " " THEN 0 ELSE DigitVal(c))
             + 10 * IntOf(s, i, n - 1)

\* lengths the directive %m can take at position 5, in the order the
\* alternatives 1[0-2] | 0[1-9] | [1-9] are tried
MonthLens(s) ==
    LET two == \/ At(s, 5) = "1" /\ At(s, 6) \in {"0", "1", "2"}
               \/ At(s, 5) = "0" /\ At(s, 6) \in NonZeroDigitChars
        one == At(s, 5) \in NonZeroDigitChars
    IN  (IF two THEN <<2>> ELSE <<>>) \o (IF one THEN <<1>> ELSE <<>>)

\* length %d takes at position q (3[0-1] | [1-2]\d | 0[1-9] | [1-9] |
\* blank [1-9]), 0 when no alternative matches
DayLen(s, q) ==
    IF At(s, q) = "3" /\ At(s, q + 1) \in {"0", "1"} THEN 2
    ELSE IF At(s, q) \in {"1", "2"} /\ At(s, q + 1) \in DigitChars THEN 2
    ELSE IF At(s, q) = "0" /\ At(s, q + 1) \in NonZeroDigitChars THEN 2
    ELSE IF At(s, q) \in NonZeroDigitChars THEN 1
    ELSE IF At(s, q) = " " /\ At(s, q + 1) \in NonZeroDigitChars THEN 2
    ELSE 0

IsLeap(y) == (y % 4 = 0 /\ y % 100 # 0) \/ y % 400 = 0

DaysInMonth(y, m) ==
    IF m = 2 THEN (IF IsLeap(y) THEN 29 ELSE 28)
    ELSE IF m \in {4, 6, 9, 11} THEN 30 ELSE 31

ValueError == [ok |-> FALSE]

\* datetime.strptime(s, '%Y%m%d'): the first way the pattern matches a
\* prefix of s; ValueError when nothing matches, when characters remain,
\* or when the numbers are not a date
Strptime(s) ==
    LET yearOk == \A i \in 1..4 : At(s, i) \in DigitChars
        ms == MonthLens(s)
        good == {k \in 1..Len(ms) : DayLen(s, 5 + ms[k]) > 0}
    IN  IF ~yearOk \/ good = {} THEN ValueError
        ELSE LET k == CHOOSE j \in good : \A h \in good : j <= h
                 ml == ms[k]
                 dl == DayLen(s, 5 + ml)
                 y == IntOf(s, 1, 4)
                 m == IntOf(s, 5, ml)
                 d == IntOf(s, 5 + ml, dl)
             IN  IF 4 + ml + dl # Len(s) THEN ValueError
                 ELSE IF y < 1 \/ d > DaysInMonth(y, m) THEN ValueError
                 ELSE [ok |-> TRUE, y |-> y, m |-> m, d |-> d]

Pad2(n) == DigitStr(n \div 10) \o DigitStr(n % 10)

\* strftime('%Y-%m-%d')
Strftime(dt) ==
    DigitStr(dt.y \div 1000) \o DigitStr((dt.y \div 100) % 10)
        \o DigitStr((dt.y \div 10) % 10) \o DigitStr(dt.y % 10)
        \o "-" \o Pad2(dt.m) \o "-" \o Pad2(dt.d)

\* ------------------------------------------------------- get_video_info
Raise == [kind |-> "raise"]
Return(v) == [kind |-> "return", val |-> v]

\* the record of the except branch
SentinelRecord(url) ==
    [judul |-> TidakTersedia,
     url |-> url,
     durasi_detik |-> IntV(0),
     durasi_menit |-> IntV(0),
     channel |-> TidakTersedia,
     jumlah_views |-> IntV(0),
     tanggal_publikasi |-> TidakTersedia,
     deskripsi |-> TidakTersedia]

\* round(duration / 60, 2) in hundredths: duration * 5 / 3 is never
\* half-way between two integers, so rounding is to the nearest one
RoundMinutes(d) == CentiV((10 * d + 3) \div 6)

\* the try body: resp is what ydl.extract_info did (raised, or returned
\* None or a dict); the result is Raise when an exception leaves the body
GetVideoInfoBody(url, resp) ==
    IF resp.kind = "raise" THEN Raise
    ELSE IF resp.val.t # "dict" THEN Raise
    ELSE LET info == resp.val
             dur == DictGet(info, "duration", IntV(0))
             date == DictGet(info, "upload_date", StrV(<<"1", "9", "7", "0", "0", "1", "0", "1">>))
             hasDur == Truthy(DictGet(info, "duration", NoneV))
             hasDate == Truthy(DictGet(info, "upload_date", NoneV))
             parsed == IF hasDate THEN Strptime(date.v) ELSE ValueError
         IN  IF hasDur /\ dur.t # "int" THEN Raise
             ELSE IF hasDate /\ ~parsed.ok THEN Raise
             ELSE Return(
                 [judul |-> DictGet(info, "title", TidakTersedia),
                  url |-> url,
                  durasi_detik |-> dur,
                  durasi_menit |-> IF hasDur THEN RoundMinutes(dur.v) ELSE IntV(0),
                  channel |-> DictGet(info, "uploader", TidakTersedia),
                  jumlah_views |-> DictGet(info, "view_count", IntV(0)),
                  tanggal_publikasi |-> IF hasDate THEN StrV(Strftime(parsed))
                                        ELSE TidakTersedia,
                  deskripsi |-> DictGet(info, "description", TidakTersedia)])

\* an except clause that catches the collaborator's errors only: what the
\* dict causes (AttributeError, TypeError, ValueError) leaves the function
GetVideoInfo_NarrowExcept(url, resp) ==
    IF resp.kind = "raise" THEN Return(SentinelRecord(url))
    ELSE GetVideoInfoBody(url, resp)

\* try body, then except Exception: the sentinel record
GetVideoInfo(url, resp) ==
    LET body == GetVideoInfoBody(url, resp)
    IN  IF body.kind = "raise" THEN Return(SentinelRecord(url)) ELSE body

\* ------------------------------------------------------- download_video
\* ydl.download raised or not; the except branch turns a raise into False
DownloadVideo(dl) == IF dl = "raise" THEN Return(FALSE) ELSE Return(TRUE)

\* ------------------------------------------------------- inputs
URLs == {"u1", "u2"}
Titles == {"PL1", "PL2"}

\* an entry of a playlist is a dict; NoKey stands for one without 'url'
NoKey == "<no url key>"
\* video_url before its first assignment
Unbound == "<unbound>"

TitleValues == {Absent, NoneV, StrV("T")}
DurationValues == {Absent, NoneV, IntV(0), IntV(90), IntV(125), StrV("1:30")}
UploaderValues == {Absent, NoneV, StrV("U")}
ViewValues == {Absent, NoneV, IntV(0), IntV(7)}
DescriptionValues == {Absent, NoneV, StrV("D")}
DateStrings ==
    {<<>>,
     <<"2", "0", "2", "4", "0", "1", "3", "1">>,
     <<"2", "0", "2", "4", "1", "3", "1">>,
     <<"2", "0", "2", "4", "1", "3", "0", "1">>,
     <<"2", "0", "2", "4", "0", "2", "3", "0">>,
     <<"2", "0", "2", "4", "-", "0", "1", "-", "3", "1">>}
DateValues == {Absent, NoneV} \cup {StrV(s) : s \in DateStrings}

InfoDicts ==
    [t : {"dict"}, title : TitleValues, duration : DurationValues,
     uploader : UploaderValues, view_count : ViewValues,
     upload_date : DateValues, description : DescriptionValues]

\* everything extract_info can do for a video URL
Responses == {Raise, Return(NoneV)} \cup {Return(d) : d \in InfoDicts}

\* the responses the two workflows are run against: a failure, a full
\* dict, a flat entry whose keys are all null, and an unparsable date
FullDict ==
    [t |-> "dict", title |-> StrV("T"), duration |-> IntV(90),
     uploader |-> StrV("U"), view_count |-> IntV(7),
     upload_date |-> StrV(<<"2", "0", "2", "4", "0", "1", "3", "1">>),
     description |-> StrV("D")]
NullDict ==
    [t |-> "dict", title |-> NoneV, duration |-> NoneV, uploader |-> NoneV,
     view_count |-> NoneV, upload_date |-> NoneV, description |-> NoneV]
WorkflowResponses ==
    {Raise, Return(FullDict), Return(NullDict),
     Return([FullDict EXCEPT !.upload_date = StrV(<<"2", "0", "2", "4", "1", "3", "0", "1">>)])}

\* playlists: sequences of at most MaxEntries entries
RECURSIVE SeqsUpTo(_, _)
SeqsUpTo(S, n) ==
    IF n = 0 THEN {<<>>}
    ELSE LET shorter == SeqsUpTo(S, n - 1)
         IN  shorter \cup {Append(q, x) : q \in {r \in shorter : Len(r) = n - 1}, x \in S}

Entries == [url : URLs \cup {NoKey}]

\* what extract_info can do for a playlist URL: raise, return None, or
\* return a dict that has or lacks the keys 'title' and 'entries'
PlaylistResponses ==
    {Raise, Return(NoneV)}
    \cup {Return([t |-> "dict", keys |-> {}, title |-> "", entries |-> <<>>])}
    \cup {Return([t |-> "dict", keys |-> {"title"}, title |-> ti, entries |-> <<>>]) :
            ti \in Titles}
    \cup {Return([t |-> "dict", keys |-> {"entries"}, title |-> "", entries |-> es]) :
            es \in SeqsUpTo(Entries, 1)}
    \cup {Return([t |-> "dict", keys |-> {"title", "entries"}, title |-> ti, entries |-> es]) :
            ti \in Titles, es \in SeqsUpTo(Entries, MaxEntries)}

\* ------------------------------------------------------- state
VARIABLES
    mode,               \* the function called: "info", "single", "playlist"
    pc,                 \* where that call is
    url,                \* its url argument
    folder,             \* download_folder: "exists", "absent", "uncreatable"
    response,           \* what extract_info did in the last get_video_info
    playlist_info,      \* extract_playlist_info's playlist_info
    index,              \* the loop's index
    video_url,          \* the loop's video_url
    video_info,         \* the last record built
    video_data,         \* the accumulated rows
    failed_downloads,   \* the failed list
    outcome,            \* how each entry taken by the loop ended
    calls,              \* the calls made to yt_dlp, in order
    writes,             \* the calls to to_csv and to_excel, in order
    result              \* what the function did: pending, return, raise

vars == <<mode, pc, url, folder, response, playlist_info, index, video_url,
          video_info, video_data, failed_downloads, outcome, calls, writes,
          result>>

Pending == [kind |-> "pending"]
DictResult(r) == Return([t |-> "dict", d |-> r])
ListResult(rows) == Return([t |-> "list", items |-> rows])
NoneResult == Return(NoneV)

Init ==
    /\ mode \in {"info", "single", "playlist"}
    /\ pc = "start"
    /\ url \in URLs
    /\ folder \in IF mode = "info" THEN {"exists"}
                  ELSE {"exists", "absent", "uncreatable"}
    /\ response = Pending
    /\ playlist_info = NoneV
    /\ index = 0
    /\ video_url = Unbound
    /\ video_info = NoneV
    /\ video_data = <<>>
    /\ failed_downloads = <<>>
    /\ outcome = <<>>
    /\ calls = <<>>
    /\ writes = <<>>
    /\ result = Pending

\* ------------------------------------------------------- setup_download_folder
\* an except branch that logs and does not re-raise
SetupDownloadFolder_Swallows(f) == Return(f)

\* raises when the folder is missing and os.makedirs fails
SetupDownloadFolder(f) == IF f = "uncreatable" THEN Raise ELSE Return("exists")

\* ------------------------------------------------------- get_video_info, called directly
CallGetVideoInfo ==
    /\ mode = "info" /\ pc = "start"
    /\ \E resp \in Responses, flat \in BOOLEAN :
          LET r == GetVideoInfo(url, resp)
          IN  /\ response' = resp
              /\ calls' = Append(calls, [fn |-> "extract_info", url |-> url, flat |-> flat])
              /\ result' = IF r.kind = "raise" THEN Raise ELSE DictResult(r.val)
              /\ video_info' = IF r.kind = "raise" THEN video_info ELSE r.val
    /\ pc' = "done"
    /\ UNCHANGED <<mode, url, folder, playlist_info, index, video_url, video_data,
                   failed_downloads, outcome, writes>>

\* ------------------------------------------------------- report writes
WriteOutcomes == {"ok", "csv_fails", "xlsx_fails"}

\* df.to_csv then df.to_excel: the calls made and whether each wrote its
\* file; to_excel is not reached when to_csv raises
Written(prefix, w) ==
    CASE w = "csv_fails" -> <<[file |-> prefix \o ".csv", ok |-> FALSE]>>
      [] w = "xlsx_fails" -> <<[file |-> prefix \o ".csv", ok |-> TRUE],
                               [file |-> prefix \o ".xlsx", ok |-> FALSE]>>
      [] w = "ok" -> <<[file |-> prefix \o ".csv", ok |-> TRUE],
                       [file |-> prefix \o ".xlsx", ok |-> TRUE]>>

ExtractCall(u, flat) == [fn |-> "extract_info", url |-> u, flat |-> flat]
DownloadCall(u, dl) == [fn |-> "download", url |-> u, did |-> dl]

\* ------------------------------------------------------- download_single_video
SingleSetup ==
    /\ mode = "single" /\ pc = "start"
    /\ LET r == SetupDownloadFolder(folder)
       IN  IF r.kind = "raise"
           THEN /\ result' = NoneResult
                /\ pc' = "done"
                /\ UNCHANGED folder
           ELSE /\ folder' = r.val
                /\ pc' = "resolve"
                /\ UNCHANGED result
    /\ UNCHANGED <<mode, url, response, playlist_info, index, video_url, video_info,
                   video_data, failed_downloads, outcome, calls, writes>>

SingleResolve ==
    /\ mode = "single" /\ pc = "resolve"
    /\ \E resp \in WorkflowResponses :
          LET r == GetVideoInfo(url, resp)
          IN  /\ response' = resp
              /\ calls' = Append(calls, ExtractCall(url, FALSE))
              /\ IF r.kind = "raise"
                 THEN /\ result' = NoneResult
                      /\ pc' = "done"
                      /\ UNCHANGED video_info
                 ELSE /\ video_info' = r.val
                      /\ pc' = "fetch"
                      /\ UNCHANGED result
    /\ UNCHANGED <<mode, url, folder, playlist_info, index, video_url, video_data,
                   failed_downloads, outcome, writes>>

\* the report written whatever download_video returned
SingleFetch_ReportAnyway ==
    /\ mode = "single" /\ pc = "fetch"
    /\ \E dl \in {"ok", "raise"} :
          /\ calls' = Append(calls, DownloadCall(url, dl))
          /\ pc' = "report"
    /\ UNCHANGED <<mode, url, folder, response, playlist_info, index, video_url,
                   video_info, video_data, failed_downloads, outcome, writes, result>>

SingleFetch ==
    /\ mode = "single" /\ pc = "fetch"
    /\ \E dl \in {"ok", "raise"} :
          LET r == DownloadVideo(dl)
          IN  /\ calls' = Append(calls, DownloadCall(url, dl))
              /\ IF r.kind = "return" /\ r.val
                 THEN /\ pc' = "report"
                      /\ UNCHANGED result
                 ELSE /\ result' = NoneResult
                      /\ pc' = "done"
    /\ UNCHANGED <<mode, url, folder, response, playlist_info, index, video_url,
                   video_info, video_data, failed_downloads, outcome, writes>>

SingleReport ==
    /\ mode = "single" /\ pc = "report"
    /\ \E w \in WriteOutcomes :
          /\ writes' = writes \o Written("youtube_video", w)
          /\ result' = IF w = "ok" THEN DictResult(video_info) ELSE NoneResult
    /\ pc' = "done"
    /\ UNCHANGED <<mode, url, folder, response, playlist_info, index, video_url,
                   video_info, video_data, failed_downloads, outcome, calls>>

\* ------------------------------------------------------- extract_playlist_info
PlaylistSetup ==
    /\ mode = "playlist" /\ pc = "start"
    /\ LET r == SetupDownloadFolder(folder)
       IN  IF r.kind = "raise"
           THEN /\ result' = NoneResult
                /\ pc' = "done"
                /\ UNCHANGED folder
           ELSE /\ folder' = r.val
                /\ pc' = "enumerate"
                /\ UNCHANGED result
    /\ UNCHANGED <<mode, url, response, playlist_info, index, video_url, video_info,
                   video_data, failed_downloads, outcome, calls, writes>>

\* extract_info for the playlist, up to the start of the loop: None when it
\* raises, when playlist_info is falsy, or when 'title' or 'entries' is missing
EnumerationFails(pl) ==
    \/ pl.kind = "raise"
    \/ pl.val.t # "dict"
    \/ pl.val.keys # {"title", "entries"}

\* a failed enumeration answered with the (empty) list of rows
PlaylistEnumerate_ReturnsRows ==
    /\ mode = "playlist" /\ pc = "enumerate"
    /\ \E pl \in PlaylistResponses :
          /\ calls' = Append(calls, ExtractCall(url, TRUE))
          /\ IF EnumerationFails(pl)
             THEN /\ result' = ListResult(video_data)
                  /\ pc' = "done"
                  /\ playlist_info' = IF pl.kind = "raise" THEN playlist_info ELSE pl.val
                  /\ UNCHANGED index
             ELSE /\ playlist_info' = pl.val
                  /\ index' = 1
                  /\ pc' = "loop"
                  /\ UNCHANGED result
    /\ UNCHANGED <<mode, url, folder, response, video_url, video_info, video_data,
                   failed_downloads, outcome, writes>>

PlaylistEnumerate ==
    /\ mode = "playlist" /\ pc = "enumerate"
    /\ \E pl \in PlaylistResponses :
          /\ calls' = Append(calls, ExtractCall(url, TRUE))
          /\ IF EnumerationFails(pl)
             THEN /\ result' = NoneResult
                  /\ pc' = "done"
                  /\ playlist_info' = IF pl.kind = "raise" THEN playlist_info ELSE pl.val
                  /\ UNCHANGED index
             ELSE /\ playlist_info' = pl.val
                  /\ index' = 1
                  /\ pc' = "loop"
                  /\ UNCHANGED result
    /\ UNCHANGED <<mode, url, folder, response, video_url, video_info, video_data,
                   failed_downloads, outcome, writes>>

\* the except branch of the loop body, lines 170-173: append video_url to
\* the failed list and go on; when video_url was never assigned the append
\* itself raises, and the outer except returns None
ItemExcept ==
    /\ outcome' = Append(outcome, "raised")
    /\ IF video_url = Unbound
       THEN /\ result' = NoneResult
            /\ pc' = "done"
            /\ UNCHANGED <<failed_downloads, index>>
       ELSE /\ failed_downloads' = Append(failed_downloads, video_url)
            /\ index' = index + 1
            /\ pc' = "loop"
            /\ UNCHANGED result

\* the loop takes its next entry: video_url = video['url']
PlaylistNextEntry ==
    /\ mode = "playlist" /\ pc = "loop"
    /\ index <= Len(playlist_info.entries)
    /\ LET video == playlist_info.entries[index]
       IN  IF video.url = NoKey
           THEN /\ ItemExcept
                /\ UNCHANGED video_url
           ELSE /\ video_url' = video.url
                /\ pc' = "item_resolve"
                /\ UNCHANGED <<failed_downloads, index, outcome, result>>
    /\ UNCHANGED <<mode, url, folder, response, playlist_info, video_info, video_data,
                   calls, writes>>

\* enumerate without its start argument: positions from 0
PlaylistRow_ZeroBased(rec, title, i) ==
    rec @@ [playlist |-> StrV(title), urutan_playlist |-> IntV(i - 1)]

\* the row of an entry: the record with the two playlist keys set
PlaylistRow(rec, title, i) ==
    rec @@ [playlist |-> StrV(title), urutan_playlist |-> IntV(i)]

PlaylistResolve ==
    /\ mode = "playlist" /\ pc = "item_resolve"
    /\ \E resp \in WorkflowResponses :
          LET r == GetVideoInfo(video_url, resp)
          IN  /\ response' = resp
              /\ calls' = Append(calls, ExtractCall(video_url, TRUE))
              /\ IF r.kind = "raise"
                 THEN /\ ItemExcept
                      /\ UNCHANGED <<video_info, video_data>>
                 ELSE /\ video_info' = PlaylistRow(r.val, playlist_info.title, index)
                      /\ video_data' = Append(video_data, video_info')
                      /\ pc' = "item_fetch"
                      /\ UNCHANGED <<failed_downloads, index, outcome, result>>
    /\ UNCHANGED <<mode, url, folder, playlist_info, video_url, writes>>

PlaylistFetch ==
    /\ mode = "playlist" /\ pc = "item_fetch"
    /\ \E dl \in {"ok", "raise"} :
          LET r == DownloadVideo(dl)
          IN  /\ calls' = Append(calls, DownloadCall(video_url, dl))
              /\ IF r.kind = "raise"
                 THEN ItemExcept
                 ELSE /\ failed_downloads' = IF r.val THEN failed_downloads
                                             ELSE Append(failed_downloads, video_url)
                      /\ outcome' = Append(outcome, IF r.val THEN "downloaded" ELSE "fetch_false")
                      /\ index' = index + 1
                      /\ pc' = "loop"
                      /\ UNCHANGED result
    /\ UNCHANGED <<mode, url, folder, response, playlist_info, video_url, video_info,
                   video_data, writes>>

\* after the loop: the report when video_data is not empty, then the return
PlaylistReport ==
    /\ mode = "playlist" /\ pc = "loop"
    /\ index > Len(playlist_info.entries)
    /\ IF video_data # <<>>
       THEN \E w \in WriteOutcomes :
               /\ writes' = writes \o Written("youtube_playlist", w)
               /\ result' = IF w = "ok" THEN ListResult(video_data) ELSE NoneResult
       ELSE /\ result' = ListResult(video_data)
            /\ UNCHANGED writes
    /\ pc' = "done"
    /\ UNCHANGED <<mode, url, folder, response, playlist_info, index, video_url,
                   video_info, video_data, failed_downloads, outcome, calls>>

Next ==
    \/ CallGetVideoInfo
    \/ SingleSetup
    \/ SingleResolve
    \/ SingleFetch
    \/ SingleReport
    \/ PlaylistSetup
    \/ PlaylistEnumerate
    \/ PlaylistNextEntry
    \/ PlaylistResolve
    \/ PlaylistFetch
    \/ PlaylistReport

Spec == Init /\ [][Next]_vars

\* ------------------------------------------------------- observations
\* the report files on disk
Files == {writes[k].file : k \in {j \in 1..Len(writes) : writes[j].ok}}
WriteFailed == \E k \in 1..Len(writes) : ~writes[k].ok

Workflows == {"single", "playlist"}
Done == pc = "done"

\* the playlist was enumerated and the loop was entered
Enumerated ==
    /\ mode = "playlist"
    /\ playlist_info.t = "dict"
    /\ playlist_info.keys = {"title", "entries"}
\* the enumeration was tried and failed
EnumerationFailed == mode = "playlist" /\ calls # <<>> /\ ~Enumerated
\* the loop has taken every entry
LoopEnded == Enumerated /\ index > Len(playlist_info.entries)

NetworkCalls(fn) == {k \in 1..Len(calls) : calls[k].fn = fn}

\* the url of the last extract_info call
LastExtractUrl ==
    LET ks == NetworkCalls("extract_info")
    IN  calls[CHOOSE k \in ks : \A h \in ks : h <= k].url

\* rec is the sentinel record for u (whatever other keys it has)
IsSentinelFor(rec, u) ==
    /\ rec.judul = TidakTersedia
    /\ rec.url = u
    /\ rec.durasi_detik = IntV(0)
    /\ rec.durasi_menit = IntV(0)
    /\ rec.channel = TidakTersedia
    /\ rec.jumlah_views = IntV(0)
    /\ rec.tanggal_publikasi = TidakTersedia
    /\ rec.deskripsi = TidakTersedia

\* s is eight digits that name a day of the calendar
ValidYmd8(s) ==
    /\ Len(s) = 8
    /\ \A i \in 1..8 : s[i] \in DigitChars
    /\ IntOf(s, 1, 4) >= 1
    /\ IntOf(s, 5, 2) \in 1..12
    /\ IntOf(s, 7, 2) \in 1..DaysInMonth(IntOf(s, 1, 4), IntOf(s, 5, 2))

\* get_video_info has been called and has answered
Resolved == response # Pending

\* the urls the failed list should hold: those of the entries that did not
\* download, in playlist order (an entry without 'url' has none)
ExpectedFailed ==
    LET es == playlist_info.entries
        F[i \in 0..Len(outcome)] ==
            IF i = 0 THEN <<>>
            ELSE IF outcome[i] # "downloaded" /\ es[i].url # NoKey
                 THEN Append(F[i - 1], es[i].url)
                 ELSE F[i - 1]
    IN  F[Len(outcome)]

\* ------------------------------------------------------- claims

\* C1: when the playlist was enumerated, the number of accumulated rows at
\* the end of the loop equals the number of playlist entries, whatever the
\* per-item outcomes (fetch ok, fetch false, an entry without 'url').
C1_RowsEqualEntries ==
    (Enumerated /\ (LoopEnded \/ Done))
        => Len(video_data) = Len(playlist_info.entries)

\* C2: one item's failure never aborts the batch: when the workflow is over
\* every entry has been taken by the loop, the loop ran to its end, and
\* (unless writing the report failed) the result is a list, not None.
C2_FailureNeverAborts ==
    (Enumerated /\ Done)
        => /\ Len(outcome) = Len(playlist_info.entries)
           /\ index > Len(playlist_info.entries)
           /\ (~WriteFailed => result = ListResult(video_data))

\* C3: after the loop the failed list is exactly the urls of the entries
\* whose fetch returned false or whose processing raised, each once and in
\* order, and holds no url of an entry that downloaded.
C3_FailedListExact ==
    LoopEnded => failed_downloads = ExpectedFailed

\* C4 as stated: with a folder that cannot be created both workflows raise
\* the error to their caller, before any call to yt_dlp.
C4_RaisesToCaller ==
    (mode \in Workflows /\ folder = "uncreatable" /\ Done)
        => (result = Raise /\ calls = <<>>)

\* C4 as amended: with a folder that cannot be created both workflows
\* return None to their caller (the error setup_download_folder raises is
\* caught), and no call to yt_dlp has been made.
C4_ReturnsNoneBeforeAnyCall ==
    (mode \in Workflows /\ folder = "uncreatable")
        => /\ calls = <<>>
           /\ Done => result = NoneResult

C4_Witness ==
    /\ mode = "playlist" /\ folder = "uncreatable" /\ Done
    /\ result = NoneResult /\ calls = <<>>

\* C5: single video: when the fetch fails the workflow returns None and
\* neither report file is written, although the metadata was resolved; a
\* report is written only after a fetch that returned True.
C5_FailedFetchNoReport ==
    mode = "single"
        => /\ (\E k \in NetworkCalls("download") : calls[k].did = "raise")
                => (Done /\ result = NoneResult /\ writes = <<>>)
           /\ writes # <<>>
                => \E k \in NetworkCalls("download") : calls[k].did = "ok"

C5_Witness ==
    /\ mode = "single" /\ Done
    /\ \E k \in NetworkCalls("download") : calls[k].did = "raise"
    /\ video_info # NoneV /\ video_info.judul = StrV("T")
    /\ result = NoneResult /\ Files = {}

\* C6: when the enumeration of the playlist fails the workflow returns
\* None, no row is accumulated, no item is resolved or fetched, and no
\* report is written.
C6_EnumerationFailureIsFatal ==
    EnumerationFailed
        => /\ Done /\ result = NoneResult
           /\ video_data = <<>> /\ outcome = <<>>
           /\ Len(calls) = 1 /\ response = Pending
           /\ writes = <<>>

C6_Witness ==
    /\ EnumerationFailed /\ Done /\ playlist_info = NoneV
    /\ result = NoneResult

\* C7 as stated: get_video_info never raises, and whenever contacting the
\* collaborator or reading its answer fails, an upload date that is not a
\* valid 8-digit YYYYMMDD string included, the record is the sentinel
\* record with the given url.
C7_InvalidDateGivesSentinel ==
    Resolved
        => /\ result # Raise
           /\ (\/ response.kind = "raise"
               \/ response.val.t # "dict"
               \/ /\ Truthy(response.val.duration)
                  /\ response.val.duration.t # "int"
               \/ /\ Truthy(response.val.upload_date)
                  /\ ~ValidYmd8(response.val.upload_date.v))
                => IsSentinelFor(video_info, LastExtractUrl)

\* C7 as amended: get_video_info never raises, and whenever extract_info
\* raises or returns None, the duration is not a number, or strptime
\* rejects the upload date, the record is the sentinel record with the
\* given url.
C7_FailureGivesSentinel ==
    Resolved
        => /\ result # Raise
           /\ (\/ response.kind = "raise"
               \/ response.val.t # "dict"
               \/ /\ Truthy(response.val.duration)
                  /\ response.val.duration.t # "int"
               \/ /\ Truthy(response.val.upload_date)
                  /\ ~Strptime(response.val.upload_date.v).ok)
                => IsSentinelFor(video_info, LastExtractUrl)

C7_Witness ==
    /\ mode = "info" /\ Done
    /\ response.kind = "return" /\ response.val.t = "dict"
    /\ response.val.title = StrV("T")
    /\ response.val.upload_date = StrV(<<"2", "0", "2", "4", "1", "3", "0", "1">>)
    /\ result = DictResult(SentinelRecord(url))

\* C8: every field the collaborator's dict lacks, its key absent or its
\* value None, becomes the documented default in the record.
C8_MissingFieldsDefault ==
    (Resolved /\ response.kind = "return" /\ response.val.t = "dict")
        => LET d == response.val
               Missing(k) == d[k] \in {Absent, NoneV}
           IN  /\ Missing("title") => video_info.judul = TidakTersedia
               /\ Missing("uploader") => video_info.channel = TidakTersedia
               /\ Missing("description") => video_info.deskripsi = TidakTersedia
               /\ Missing("duration") => /\ video_info.durasi_detik = IntV(0)
                                         /\ video_info.durasi_menit = IntV(0)
               /\ Missing("view_count") => video_info.jumlah_views = IntV(0)
               /\ Missing("upload_date") => video_info.tanggal_publikasi = TidakTersedia

\* C9: the rows are in playlist order, and each carries the playlist's
\* title and the 1-based position of its entry: the row's url is the url
\* of the entry at that position.
C9_RowsCarryPlaylistPosition ==
    Enumerated
        => \A k \in 1..Len(video_data) :
              LET row == video_data[k]
                  i == row.urutan_playlist.v
              IN  /\ row.playlist = StrV(playlist_info.title)
                  /\ row.urutan_playlist.t = "int"
                  /\ i \in 1..Len(playlist_info.entries)
                  /\ playlist_info.entries[i].url = row.url
                  /\ k > 1 => video_data[k - 1].urutan_playlist.v < i

C9_Witness ==
    /\ Enumerated /\ Done
    /\ Len(video_data) = 2
    /\ outcome = <<"fetch_false", "raised", "downloaded">>
    /\ video_data[2].urutan_playlist = IntV(3)
    /\ video_data[2].url = "u2"

\* C10: with the playlist enumerated, the report is written at most once,
\* only after the loop, and exactly when there are rows; with no entries
\* nothing is written and the result is the empty list; the result is the
\* accumulated rows (a run in which to_csv or to_excel fails is left out).
C10_ReportOnceAndRowsReturned ==
    Enumerated
        => /\ writes # <<>> => LoopEnded
           /\ \A j, k \in 1..Len(writes) : writes[j].file = writes[k].file => j = k
           /\ (Done /\ ~WriteFailed)
                => /\ (Files # {}) <=> (video_data # <<>>)
                   /\ result = ListResult(video_data)
           /\ (Done /\ playlist_info.entries = <<>>)
                => (writes = <<>> /\ result = ListResult(<<>>))

====
